---- MODULE Spec2Model ----
(***************************************************************************)
(* Model of checked-automerge: a set of replicas (Peer actors), each       *)
(* owning one document, and a set of request-generating clients, joined    *)
(* by an ordered (per sender-receiver FIFO) network.  A step delivers the  *)
(* message at the head of one channel to its destination actor.            *)
(***************************************************************************)
EXTENDS Integers, Sequences, FiniteSets, Bags, TLC

(***************************************************************************)
(* Bounds of the model and constants of the program.                       *)
(***************************************************************************)
MaxServers == 3

MaxClients == 2

MaxActors == 4

MaxDeleters == 2

MaxRequestCount == 2

MaxIndex == 1

MaxHandled == 2

MaxRequestId == 1

MaxAckClients == 1

HandshakeLen == 4

RequestCount == 2

KEY == "key"

Changes == "changes"

Messages == "messages"

SyncMethod == {Changes, Messages}

(***************************************************************************)
(* Small helpers.                                                          *)
(***************************************************************************)
RECURSIVE SetToSeq(_)
SetToSeq(S) ==
    IF S = {} THEN <<>>
    ELSE LET x == CHOOSE y \in S : \A z \in S : y <= z
         IN  <<x>> \o SetToSeq(S \ {x})

Range(s) == {s[i] : i \in 1..Len(s)}

(***************************************************************************)
(* The document engine.  A change is identified by its hash, modelled as   *)
(* the pair <<actor, seq>>; it records the hashes it depends on and the    *)
(* single map operation it carries: a put or a delete on a key, with the   *)
(* operation id <<counter, actor>> and the ids of the operations it        *)
(* overwrites (pred).                                                      *)
(***************************************************************************)
OpId(c) == <<c.start_op, c.hash[1]>>

\* Lamport order on operation ids: by counter, then by actor.
OpLess(a, b) == a[1] < b[1] \/ (a[1] = b[1] /\ a[2] < b[2])

Hashes(cs) == {c.hash : c \in cs}

\* The hashes of the applied changes no other applied change depends on.
Heads(doc) ==
    {c.hash : c \in {d \in doc.history :
                        \A e \in doc.history : d.hash \notin e.deps}}

MaxOp(doc) ==
    IF doc.history = {} THEN 0
    ELSE LET c == CHOOSE d \in doc.history :
                      \A e \in doc.history : e.start_op <= d.start_op
         IN  c.start_op

\* The put operations on the key that no applied operation has overwritten.
Visible(doc, key) ==
    {c \in doc.history :
        /\ c.key = key
        /\ c.action = "put"
        /\ \A d \in doc.history : OpId(c) \notin d.pred}

NoValue == [some |-> FALSE, value |-> <<>>]

SomeValue(v) == [some |-> TRUE, value |-> v]

\* The value of the key: the visible put with the greatest operation id.
DocGet(doc, key) ==
    LET vis == Visible(doc, key)
    IN  IF vis = {} THEN NoValue
        ELSE LET w == CHOOSE c \in vis :
                          \A d \in vis : d = c \/ OpLess(OpId(d), OpId(c))
             IN  SomeValue(w.value)

\* The observable content of the document: its key -> value pairs.
DocValues(doc) ==
    LET g == DocGet(doc, KEY)
    IN  IF g.some THEN {<<KEY, g.value>>} ELSE {}

NewSyncState ==
    [shared_heads    |-> {},
     last_sent_heads |-> {},
     received        |-> FALSE,
     their_heads     |-> {},
     their_need      |-> {},
     their_have      |-> {},
     sent_hashes     |-> {}]

DocNew(id, peers) ==
    [actor       |-> id,
     history     |-> {},
     queue       |-> {},
     sync_states |-> [p \in peers |-> NewSyncState]]

OwnChanges(doc) == {c \in doc.history : c.hash[1] = doc.actor}

\* A local change made by this document's actor on top of all applied changes.
LocalChange(doc, action, key, value) ==
    [hash     |-> <<doc.actor, Cardinality(OwnChanges(doc)) + 1>>,
     deps     |-> Heads(doc),
     start_op |-> MaxOp(doc) + 1,
     action   |-> action,
     key      |-> key,
     value    |-> value,
     pred     |-> {OpId(c) : c \in Visible(doc, key)}]

DocPut(doc, key, value) ==
    [doc EXCEPT !.history = @ \cup {LocalChange(doc, "put", key, value)}]

\* Deleting a key that has no value changes nothing and records no change.
DocDelete(doc, key) ==
    IF Visible(doc, key) = {} THEN doc
    ELSE [doc EXCEPT !.history = @ \cup {LocalChange(doc, "del", key, <<>>)}]

Latest(own) ==
    IF own = {} THEN [some |-> FALSE, value |-> <<>>]
    ELSE [some  |-> TRUE,
          value |-> CHOOSE c \in own : \A d \in own : d.hash[2] <= c.hash[2]]

\* The latest change this document's actor made itself, if any.
DocLastLocalChange(doc) == Latest(OwnChanges(doc))

\* Move queued changes whose dependencies are all applied into the history.
RECURSIVE DrainQueue(_)
DrainQueue(doc) ==
    LET ready == {c \in doc.queue : c.deps \subseteq Hashes(doc.history)}
    IN  IF ready = {} THEN doc
        ELSE DrainQueue([doc EXCEPT
                 !.history = @ \cup {c \in ready : c.hash \notin Hashes(doc.history)},
                 !.queue   = @ \ ready])

\* A change whose hash is unknown but whose actor and sequence number are
\* already taken is rejected by the engine.
DuplicateSeq(doc, c) ==
    /\ c.hash \notin Hashes(doc.history)
    /\ \E d \in doc.history :
          d.hash[1] = c.hash[1] /\ d.hash[2] = c.hash[2] /\ d # c

ApplyError(doc, cs) == \E c \in cs : DuplicateSeq(doc, c)

\* Apply changes: known ones are skipped, ready ones applied, the others
\* wait in the queue for their dependencies.
DocApplyChanges(doc, cs) ==
    LET fresh == {c \in cs : c.hash \notin Hashes(doc.history)}
    IN  DrainQueue([doc EXCEPT !.queue = @ \cup fresh])

(***************************************************************************)
(* The two-party sync protocol of the document engine.  Each document      *)
(* keeps one sync state per peer.  A sync message carries the sender's     *)
(* heads, the hashes it needs, a summary of what it has (the hashes of its *)
(* changes since the last sync; the filter is modelled as the exact set)   *)
(* and the changes it believes the peer lacks.                             *)
(***************************************************************************)
RECURSIVE AncestorsOf(_, _)
AncestorsOf(history, hs) ==
    LET next == hs \cup UNION {c.deps : c \in {d \in history : d.hash \in hs}}
    IN  IF next = hs THEN hs ELSE AncestorsOf(history, next)

\* The applied changes that are not ancestors of (or equal to) have_deps.
GetChanges(doc, have_deps) ==
    {c \in doc.history : c.hash \notin AncestorsOf(doc.history, have_deps)}

GetMissingDeps(doc, heads) ==
    LET known    == Hashes(doc.history)
        in_queue == Hashes(doc.queue)
        missing  == (UNION {c.deps : c \in doc.queue} \cup heads) \ known
    IN  missing \ in_queue

Have(last_sync, bloom) == [last_sync |-> last_sync, bloom |-> bloom]

MakeBloomFilter(doc, last_sync) ==
    Have(last_sync, Hashes(GetChanges(doc, last_sync)))

RECURSIVE DependentsOf(_, _)
DependentsOf(cs, hs) ==
    LET next == hs \cup {c.hash : c \in {d \in cs : d.deps \cap hs # {}}}
    IN  IF next = hs THEN hs ELSE DependentsOf(cs, next)

\* Of the changes made since the last sync, those the peer's summary does
\* not list, the changes that depend on them, and the ones the peer asked for.
ChangesToSendAmong(doc, have, need, changes) ==
    {c \in doc.history :
        c.hash \in need \cup
            DependentsOf(changes,
                {d.hash : d \in {e \in changes :
                                    \A h \in have : e.hash \notin h.bloom}})}

GetChangesToSend(doc, have, need) ==
    IF have = {} THEN {c \in doc.history : c.hash \in need}
    ELSE ChangesToSendAmong(doc, have, need,
             GetChanges(doc, UNION {h.last_sync : h \in have}))

SyncMsg(heads, have, need, changes) ==
    [heads |-> heads, have |-> have, need |-> need, changes |-> changes]

Generated(some, message, doc) == [some |-> some, message |-> message, doc |-> doc]

\* The peer's summary names a last-sync hash this document does not have.
PeerLostData(doc, st) ==
    /\ st.received
    /\ \E h \in st.their_have : ~(h.last_sync \subseteq Hashes(doc.history))

OurHave(doc, st, our_need) ==
    IF our_need \subseteq st.their_heads
    THEN {MakeBloomFilter(doc, st.shared_heads)}
    ELSE {}

ChangesForPeer(doc, st) ==
    IF st.received THEN GetChangesToSend(doc, st.their_have, st.their_need)
    ELSE {}

GenerateFrom(doc, peer, st, our_heads, our_need, candidates, to_send) ==
    IF PeerLostData(doc, st)
    THEN Generated(TRUE, SyncMsg(our_heads, {Have({}, {})}, {}, {}), doc)
    ELSE IF /\ st.last_sent_heads = our_heads
            /\ st.received /\ st.their_heads = our_heads
            /\ candidates = {}
    THEN Generated(FALSE, <<>>, doc)
    ELSE Generated(TRUE,
             SyncMsg(our_heads, OurHave(doc, st, our_need), our_need, to_send),
             [doc EXCEPT
                 !.sync_states[peer].last_sent_heads = our_heads,
                 !.sync_states[peer].sent_hashes = @ \cup Hashes(to_send)])

GenerateWith(doc, peer, st, candidates) ==
    GenerateFrom(doc, peer, st, Heads(doc), GetMissingDeps(doc, st.their_heads),
                 candidates, {c \in candidates : c.hash \notin st.sent_hashes})

\* generate_sync_message: the message for the peer, if there is anything to
\* say, and the document with the peer's sync state updated.
DocGenerateSyncMessage(doc, peer) ==
    GenerateWith(doc, peer, doc.sync_states[peer],
                 ChangesForPeer(doc, doc.sync_states[peer]))

AdvanceHeads(old_heads, new_heads, old_shared) ==
    (new_heads \ old_heads) \cup (old_shared \cap new_heads)

ReceiveInto(applied, peer, message, st0, before_heads, known) ==
    [applied EXCEPT !.sync_states[peer] =
        [shared_heads    |->
             IF message.heads \subseteq known THEN message.heads
             ELSE (IF message.changes = {} THEN st0.shared_heads
                   ELSE AdvanceHeads(before_heads, Heads(applied),
                                     st0.shared_heads))
                  \cup (message.heads \cap known),
         last_sent_heads |->
             IF message.heads = {} THEN {}
             ELSE IF message.changes = {} /\ message.heads = before_heads
             THEN message.heads
             ELSE st0.last_sent_heads,
         received        |-> TRUE,
         their_heads     |-> message.heads,
         their_need      |-> message.need,
         their_have      |-> message.have,
         sent_hashes     |->
             IF message.heads = {} THEN {}
             ELSE st0.sent_hashes \
                      AncestorsOf(applied.history, message.heads \cap known)]]

ReceiveApplied(doc, applied, peer, message) ==
    ReceiveInto(applied, peer, message, doc.sync_states[peer], Heads(doc),
                Hashes(applied.history))

\* receive_sync_message: apply the carried changes and record what the peer
\* said about itself.
DocReceiveSyncMessage(doc, peer, message) ==
    ReceiveApplied(doc,
                   IF message.changes = {} THEN doc
                   ELSE DocApplyChanges(doc, message.changes),
                   peer, message)

(***************************************************************************)
(* Messages.  The Client family carries requests and acknowledgements, the *)
(* Internal family carries the sync traffic between replicas.  The payload *)
(* of an Internal message is the encoded form of a sync message or change. *)
(***************************************************************************)
Put(id, key, value) == [family |-> "Client", type |-> "Put", id |-> id, key |-> key, value |-> value]

Get(id, key) == [family |-> "Client", type |-> "Get", id |-> id, key |-> key]

Delete(id, key) == [family |-> "Client", type |-> "Delete", id |-> id, key |-> key]

PutOk(id) == [family |-> "Client", type |-> "PutOk", id |-> id]

GetOk(id, value) == [family |-> "Client", type |-> "GetOk", id |-> id, value |-> value]

DeleteOk(id) == [family |-> "Client", type |-> "DeleteOk", id |-> id]

AckTypes == {"PutOk", "GetOk", "DeleteOk"}

RequestTypes == {"Put", "Get", "Delete"}

\* sync::Message::encode and Change::raw_bytes: the payload as opaque bytes.
EncodeMessage(m) == [format |-> "sync", body |-> m]

RawBytes(c) == [format |-> "change", body |-> c]

\* sync::Message::decode and Change::from_bytes fail on anything else.
DecodeMessage(b) ==
    IF b.format = "sync" THEN [ok |-> TRUE, value |-> b.body]
    ELSE [ok |-> FALSE, value |-> <<>>]

ChangeFromBytes(b) ==
    IF b.format = "change" THEN [ok |-> TRUE, value |-> b.body]
    ELSE [ok |-> FALSE, value |-> <<>>]

SyncMessage(message_bytes) ==
    [family |-> "Internal", type |-> "SyncMessage", message_bytes |-> message_bytes]

SyncChange(change_bytes) ==
    [family |-> "Internal", type |-> "SyncChange", change_bytes |-> change_bytes]

Envelope(src, dst, msg) == [src |-> src, dst |-> dst, msg |-> msg]

\* One output command of a handler: a message for a destination.
Send(dst, msg) == [cmd |-> "Send", dst |-> dst, msg |-> msg]

\* Out::broadcast: one send per recipient, in the recipients' order.
Broadcast(recipients, msg) ==
    [i \in 1..Len(recipients) |-> Send(recipients[i], msg)]

\* What a handler returns: the state, the output commands, whether the state
\* was taken for writing (replaced) and whether the handler panicked.
Result(state, out, owned, fault) ==
    [state |-> state, out |-> out, owned |-> owned, fault |-> fault]

(***************************************************************************)
(* The replica actor (Peer).                                               *)
(***************************************************************************)
Peer(peers, sync_method, message_acks) ==
    [peers |-> peers, sync_method |-> sync_method, message_acks |-> message_acks]

\* Faulty variant: the peer set runs one id too far, into the clients' ids.
ModelPeersOffByOne(i, n) == SetToSeq((0..n) \ {i})

\* model_peers(i, n): the ids of the other replicas, in ascending order.
ModelPeers(i, n) == SetToSeq((0..(n - 1)) \ {i})

PeerOnStart(self, id) == DocNew(id, Range(self.peers))

\* Faulty variant: the change reaches the first peer only.
BroadcastChangeToFirst(peers, change) ==
    IF change.some /\ peers # <<>>
    THEN Broadcast(<<Head(peers)>>, SyncChange(RawBytes(change.value)))
    ELSE <<>>

BroadcastChange(peers, change) ==
    IF change.some THEN Broadcast(peers, SyncChange(RawBytes(change.value)))
    ELSE <<>>

\* Changes: broadcast the latest local change, if there is one.
BroadcastLastLocalChange(self, state) ==
    BroadcastChange(self.peers, DocLastLocalChange(state))

Disseminated(state, out) == [state |-> state, out |-> out]

RECURSIVE GenerateForPeers(_, _, _)
SendGenerated(peers, out, gen) ==
    GenerateForPeers(Tail(peers), gen.doc,
        IF gen.some
        THEN Append(out, Send(Head(peers), SyncMessage(EncodeMessage(gen.message))))
        ELSE out)

\* Messages: for each peer in turn, generate a sync message and send it if
\* the engine produced one.  Returns the state and the output commands.
GenerateForPeers(peers, state, out) ==
    IF peers = <<>> THEN Disseminated(state, out)
    ELSE SendGenerated(peers, out, DocGenerateSyncMessage(state, Head(peers)))

\* Faulty variant: both strategies run, whichever is configured.
DisseminateBoth(self, state, out) ==
    GenerateForPeers(self.peers, state,
                     out \o BroadcastLastLocalChange(self, state))

\* The dissemination step that follows a local mutation.
Disseminate(self, state, out) ==
    IF self.sync_method = Changes
    THEN Disseminated(state, out \o BroadcastLastLocalChange(self, state))
    ELSE GenerateForPeers(self.peers, state, out)

\* Faulty variant: the acknowledgement carries the next RequestId.
PutAckNextId(self, src, id) ==
    IF self.message_acks THEN <<Send(src, PutOk(id + 1))>> ELSE <<>>

\* Faulty variant: the acknowledgement goes to the first peer, not to src.
PutAckToPeer(self, src, id) ==
    IF self.message_acks
    THEN <<Send(IF self.peers = <<>> THEN src ELSE Head(self.peers), PutOk(id))>>
    ELSE <<>>

PutAck(self, src, id) ==
    IF self.message_acks THEN <<Send(src, PutOk(id))>> ELSE <<>>

\* Faulty variant: the acknowledgement is sent whatever the flag says.
DeleteAckAlways(self, src, id) == <<Send(src, DeleteOk(id))>>

DeleteAck(self, src, id) ==
    IF self.message_acks THEN <<Send(src, DeleteOk(id))>> ELSE <<>>

Mutated(d) == Result(d.state, d.out, TRUE, FALSE)

Panicked(state) == Result(state, <<>>, FALSE, TRUE)

\* Faulty variant: the write is applied locally and never disseminated.
OnPutLocalOnly(self, state, src, msg) ==
    Result(DocPut(state, msg.key, msg.value), PutAck(self, src, msg.id), TRUE, FALSE)

OnPut(self, state, src, msg) ==
    Mutated(Disseminate(self, DocPut(state, msg.key, msg.value),
                        PutAck(self, src, msg.id)))

\* Faulty variant: a Get is answered whether or not the key has a value.
GetOkForAnyKey(self, src, id, value) ==
    IF self.message_acks THEN <<Send(src, GetOk(id, value.value))>> ELSE <<>>

GetOkFor(self, src, id, value) ==
    IF value.some
    THEN IF self.message_acks THEN <<Send(src, GetOk(id, value.value))>> ELSE <<>>
    ELSE <<>>

GetReply(self, state, src, msg) ==
    GetOkFor(self, src, msg.id, DocGet(state, msg.key))

OnGet(self, state, src, msg) ==
    Result(state, GetReply(self, state, src, msg), FALSE, FALSE)

\* Faulty variant: deleting a key that has no value is treated as an error.
OnDeleteStrict(self, state, src, msg) ==
    IF DocGet(state, msg.key).some
    THEN Mutated(Disseminate(self, DocDelete(state, msg.key),
                             DeleteAck(self, src, msg.id)))
    ELSE Panicked(state)

OnDelete(self, state, src, msg) ==
    Mutated(Disseminate(self, DocDelete(state, msg.key),
                        DeleteAck(self, src, msg.id)))

\* Faulty variant: the reply the engine generated is never sent.
SyncReplySilent(src, gen) == Result(gen.doc, <<>>, TRUE, FALSE)

\* Faulty variant: a reply is sent even when the engine generated none.
SyncReplyAlways(src, gen) ==
    Result(gen.doc,
           <<Send(src, SyncMessage(EncodeMessage(
                 IF gen.some THEN gen.message
                 ELSE SyncMsg(Heads(gen.doc), {}, {}, {}))))>>,
           TRUE, FALSE)

\* Faulty variant: the reply the engine generated is sent twice.
SyncReplyTwice(src, gen) ==
    Result(gen.doc,
           IF gen.some
           THEN <<Send(src, SyncMessage(EncodeMessage(gen.message))),
                  Send(src, SyncMessage(EncodeMessage(gen.message)))>>
           ELSE <<>>,
           TRUE, FALSE)

SyncReply(src, gen) ==
    Result(gen.doc,
           IF gen.some THEN <<Send(src, SyncMessage(EncodeMessage(gen.message)))>>
           ELSE <<>>,
           TRUE, FALSE)

ReceiveDecoded(state, src, message) ==
    IF ~message.ok THEN Panicked(state)
    ELSE IF ApplyError(state, message.value.changes) THEN Panicked(state)
    ELSE SyncReply(src,
             DocGenerateSyncMessage(
                 DocReceiveSyncMessage(state, src, message.value), src))

OnSyncMessage(self, state, src, msg) ==
    ReceiveDecoded(state, src, DecodeMessage(msg.message_bytes))

\* Faulty variant: a change that is already applied is not recognised and
\* is kept waiting in the queue.
ApplyDecodedUnchecked(state, change) ==
    IF change.value.hash \in Hashes(state.history)
    THEN Result([state EXCEPT !.queue = @ \cup {change.value}], <<>>, TRUE, FALSE)
    ELSE Result(DocApplyChanges(state, {change.value}), <<>>, TRUE, FALSE)

ApplyDecoded(state, change) ==
    IF ~change.ok THEN Panicked(state)
    ELSE IF ApplyError(state, {change.value}) THEN Panicked(state)
    ELSE Result(DocApplyChanges(state, {change.value}), <<>>, TRUE, FALSE)

\* Faulty variant: the received change is dropped.
OnSyncChangeDropped(self, state, src, msg) == Result(state, <<>>, TRUE, FALSE)

\* Faulty variant: the received change is applied and relayed to the peers.
OnSyncChangeRelayed(self, state, src, msg) ==
    Result(DocApplyChanges(state, {ChangeFromBytes(msg.change_bytes).value}),
           Broadcast(self.peers, msg), TRUE, FALSE)

\* Faulty variant: the received change is applied and echoed to its sender.
OnSyncChangeEchoed(self, state, src, msg) ==
    Result(DocApplyChanges(state, {ChangeFromBytes(msg.change_bytes).value}),
           <<Send(src, msg)>>, TRUE, FALSE)

OnSyncChange(self, state, src, msg) ==
    ApplyDecoded(state, ChangeFromBytes(msg.change_bytes))

\* Faulty variant: the state is taken for writing, though nothing is written.
OnOkTouched(self, state, src, msg) == Result(state, <<>>, TRUE, FALSE)

OnOk(self, state, src, msg) == Result(state, <<>>, FALSE, FALSE)

\* Faulty variant: a timeout handler that sets the timer again.
PeerOnTimeoutRearmed(self, state) ==
    Result(state, <<[cmd |-> "SetTimer"]>>, FALSE, FALSE)

\* Peer has no timeout handler of its own: the default does nothing.
PeerOnTimeout(self, state) == Result(state, <<>>, FALSE, FALSE)

PeerOnMsg(self, state, src, msg) ==
    CASE msg.type = "Put"         -> OnPut(self, state, src, msg)
      [] msg.type = "Get"         -> OnGet(self, state, src, msg)
      [] msg.type = "Delete"      -> OnDelete(self, state, src, msg)
      [] msg.type = "SyncMessage" -> OnSyncMessage(self, state, src, msg)
      [] msg.type = "SyncChange"  -> OnSyncChange(self, state, src, msg)
      [] msg.type \in AckTypes    -> OnOk(self, state, src, msg)

(***************************************************************************)
(* The client actors: request generators that emit their requests at       *)
(* start and keep no state.                                                *)
(***************************************************************************)
Unit == <<>>

Client(count, follow_up_gets, server_count, message_acks, request_type, target) ==
    [count |-> count, follow_up_gets |-> follow_up_gets,
     server_count |-> server_count, message_acks |-> message_acks,
     request_type |-> request_type, target |-> target]

\* The value of a client's i-th Put (i from 0): "v1", "v2", ... of that client.
ValueOf(id, i) == <<id, i + 1>>

Request(self, id, i) ==
    IF self.request_type = "Put" THEN Put(i, KEY, ValueOf(id, i))
    ELSE Delete(i, KEY)

ClientOnStart(self, id) ==
    [i \in 1..self.count |-> Send(self.target, Request(self, id, i - 1))]

\* An acknowledged write is followed by a read of the same key when
\* follow-up gets are enabled; the read's id is new in the client's stream.
ClientOnMsg(self, state, src, msg) ==
    IF self.follow_up_gets /\ msg.type \in {"PutOk", "DeleteOk"}
    THEN Result(state, <<Send(src, Get(self.count + msg.id, KEY))>>, FALSE, FALSE)
    ELSE Result(state, <<>>, FALSE, FALSE)

(***************************************************************************)
(* The composite actor: a Client or a Server, with the state of its kind.  *)
(***************************************************************************)
ServerActor(peer) == [kind |-> "Server", actor |-> peer]

ClientActor(client) == [kind |-> "Client", actor |-> client]

ActorState(kind, state) == [kind |-> kind, state |-> state]

ActorOnStart(a, id) ==
    IF a.kind = "Client"
    THEN [state |-> ActorState("Client", Unit), out |-> ClientOnStart(a.actor, id)]
    ELSE [state |-> ActorState("Server", PeerOnStart(a.actor, id)), out |-> <<>>]

\* The handler's result, with the state wrapped in the actor's kind when the
\* handler replaced it.
Wrap(kind, astate, r) ==
    Result(IF r.owned THEN ActorState(kind, r.state) ELSE astate,
           r.out, r.owned, r.fault)

\* Route the message to the handler of the actor's kind; an actor paired
\* with a state of the other kind does nothing.
ActorOnMsg(a, astate, src, msg) ==
    IF a.kind = "Client" /\ astate.kind = "Client"
    THEN Wrap("Client", astate, ClientOnMsg(a.actor, astate.state, src, msg))
    ELSE IF a.kind = "Server" /\ astate.kind = "Server"
    THEN Wrap("Server", astate, PeerOnMsg(a.actor, astate.state, src, msg))
    ELSE Result(astate, <<>>, FALSE, FALSE)

\* Only a Server with a Server state runs a timeout handler.
ActorOnTimeout(a, astate) ==
    IF a.kind = "Server" /\ astate.kind = "Server"
    THEN Wrap("Server", astate, PeerOnTimeout(a.actor, astate.state))
    ELSE Result(astate, <<>>, FALSE, FALSE)

(***************************************************************************)
(* The model assembler: replicas first, then the put clients, then the     *)
(* delete clients.                                                         *)
(***************************************************************************)
ModelCfg(servers, put_clients, delete_clients, follow_up_gets, sync_method, message_acks, target) ==
    [servers |-> servers, put_clients |-> put_clients,
     delete_clients |-> delete_clients, follow_up_gets |-> follow_up_gets,
     sync_method |-> sync_method, message_acks |-> message_acks,
     target |-> target]

ActorCount(c) == c.servers + c.put_clients + c.delete_clients

Ids(c) == 0..(ActorCount(c) - 1)

ServerIds(c) == 0..(c.servers - 1)

ClientIds(c) == Ids(c) \ ServerIds(c)

IntoActorModel(c) ==
    [i \in Ids(c) |->
        IF i < c.servers
        THEN ServerActor(Peer(ModelPeers(i, c.servers), c.sync_method,
                              c.message_acks))
        ELSE ClientActor(Client(RequestCount, c.follow_up_gets, c.servers,
                                c.message_acks,
                                IF i < c.servers + c.put_clients
                                THEN "Put" ELSE "Delete",
                                c.target[i]))]

(***************************************************************************)
(* The ordered network: one FIFO channel per sender-receiver pair.  Only   *)
(* the head of a channel is deliverable.                                   *)
(***************************************************************************)
Flows(c) == Ids(c) \X Ids(c)

EmptyNetwork(c) == [f \in Flows(c) |-> <<>>]

\* Process the Send commands of an actor's output, in order.
RECURSIVE NetworkSend(_, _, _)
NetworkSend(net, src, out) ==
    IF out = <<>> THEN net
    ELSE NetworkSend(IF Head(out).cmd = "Send"
                     THEN [net EXCEPT ![<<src, Head(out).dst>>] = Append(@, Head(out).msg)]
                     ELSE net,
                     src, Tail(out))

\* Process the timer commands of an actor's output: whether its timer is set.
RECURSIVE TimerAfter(_, _)
TimerAfter(set, out) ==
    IF out = <<>> THEN set
    ELSE TimerAfter(IF Head(out).cmd = "SetTimer" THEN TRUE
                    ELSE IF Head(out).cmd = "CancelTimer" THEN FALSE
                    ELSE set,
                    Tail(out))

\* The envelopes at the heads of the non-empty channels.
IterDeliverable(net) ==
    {Envelope(f[1], f[2], Head(net[f])) : f \in {g \in DOMAIN net : net[g] # <<>>}}

\* Every envelope queued anywhere in the network.
InFlight(net) ==
    UNION {{Envelope(f[1], f[2], net[f][k]) : k \in 1..Len(net[f])} : f \in DOMAIN net}

VARIABLES
    cfg,           \* the configuration of the run
    actor_states,  \* the state of each actor, by id
    network,       \* the messages in flight, by channel
    is_timer_set,  \* whether each actor has a timeout pending
    delivered,     \* how many messages, and how many SyncMessages, were delivered
    sent,          \* bag of every Client-family envelope ever sent
    last,          \* the last delivery: the envelope, the actor's state before, its output
    fault          \* whether a handler panicked

vars == <<cfg, actor_states, network, is_timer_set, delivered, sent, last, fault>>

RECURSIVE ClientEnvelopes(_, _)
ClientEnvelopes(src, out) ==
    IF out = <<>> THEN EmptyBag
    ELSE (IF Head(out).cmd = "Send" /\ Head(out).msg.family = "Client"
          THEN SetToBag({Envelope(src, Head(out).dst, Head(out).msg)})
          ELSE EmptyBag) (+) ClientEnvelopes(src, Tail(out))

RECURSIVE StartAll(_, _, _, _)
Started(actors, ids, net, log, id, out) ==
    StartAll(actors, Tail(ids), NetworkSend(net, id, out),
             log (+) ClientEnvelopes(id, out))

\* on_start of every actor in id order: the network and the record of sends.
StartAll(actors, ids, net, log) ==
    IF ids = <<>> THEN [network |-> net, sent |-> log]
    ELSE Started(actors, ids, net, log, Head(ids),
                 ActorOnStart(actors[Head(ids)], Head(ids)).out)

NoStep ==
    [step |-> "init", src |-> 0, dst |-> 0, msg |-> <<>>, before |-> <<>>,
     out |-> <<>>, owned |-> FALSE]

InitWith(c, actors, started) ==
    /\ cfg = c
    /\ actor_states = [i \in Ids(c) |-> ActorOnStart(actors[i], i).state]
    /\ network = started.network
    /\ is_timer_set = [i \in Ids(c) |-> TimerAfter(FALSE, ActorOnStart(actors[i], i).out)]
    /\ delivered = [all |-> 0, sync |-> 0]
    /\ sent = started.sent
    /\ last = NoStep
    /\ fault = FALSE

InitFor(c) ==
    InitWith(c, IntoActorModel(c),
             StartAll(IntoActorModel(c), SetToSeq(Ids(c)), EmptyNetwork(c), EmptyBag))

\* The configurations explored: up to MaxServers replicas and MaxClients
\* clients of either kind, MaxActors actors at most, each client bound to
\* one target replica; with acknowledgements on, up to MaxAckClients clients.
Init ==
    \E s \in 0..MaxServers, p \in 0..MaxClients, d \in 0..MaxClients,
       g \in BOOLEAN, m \in SyncMethod, a \in BOOLEAN :
        /\ p + d <= (IF a THEN MaxAckClients ELSE MaxClients)
        /\ s + p + d <= MaxActors
        /\ \E t \in [s..(s + p + d - 1) -> 0..(s - 1)] :
              InitFor(ModelCfg(s, p, d, g, m, a, t))

\* The effect of a delivery on channel f, given the handler's result r.
Delivered(f, msg, r) ==
    /\ actor_states' = [actor_states EXCEPT ![f[2]] = r.state]
    /\ network' = IF r.fault THEN network
                  ELSE NetworkSend([network EXCEPT ![f] = Tail(@)], f[2], r.out)
    /\ is_timer_set' = [is_timer_set EXCEPT ![f[2]] = TimerAfter(@, r.out)]
    /\ delivered' = [all  |-> delivered.all + 1,
                     sync |-> delivered.sync + (IF msg.type = "SyncMessage" THEN 1 ELSE 0)]
    /\ sent' = sent (+) ClientEnvelopes(f[2], r.out)
    /\ last' = [step |-> "deliver", src |-> f[1], dst |-> f[2], msg |-> msg,
                before |-> actor_states[f[2]], out |-> r.out, owned |-> r.owned]
    /\ fault' = r.fault
    /\ UNCHANGED cfg

\* Deliver the head of channel f, a message of one of the given types, to
\* its destination, an actor of the given kind.
Deliver(f, kind, types) ==
    /\ ~fault
    /\ network[f] # <<>>
    /\ Head(network[f]).type \in types
    /\ actor_states[f[2]].kind = kind
    /\ Delivered(f, Head(network[f]),
                 ActorOnMsg(IntoActorModel(cfg)[f[2]], actor_states[f[2]],
                            f[1], Head(network[f])))

PeerPut == \E f \in DOMAIN network : Deliver(f, "Server", {"Put"})

PeerGet == \E f \in DOMAIN network : Deliver(f, "Server", {"Get"})

PeerDelete == \E f \in DOMAIN network : Deliver(f, "Server", {"Delete"})

PeerSyncMessage == \E f \in DOMAIN network : Deliver(f, "Server", {"SyncMessage"})

PeerSyncChange == \E f \in DOMAIN network : Deliver(f, "Server", {"SyncChange"})

ClientOk == \E f \in DOMAIN network : Deliver(f, "Client", AckTypes)

Next ==
    \/ PeerPut
    \/ PeerGet
    \/ PeerDelete
    \/ PeerSyncMessage
    \/ PeerSyncChange
    \/ ClientOk

Spec == Init /\ [][Next]_vars

(***************************************************************************)
(* The two properties the model assembler registers.                       *)
(***************************************************************************)
\* Faulty variant: a replica and a client never count as agreeing.
SamePairStrict(a, b) ==
    IF a.kind = "Server" /\ b.kind = "Server"
    THEN DocValues(a.state) = DocValues(b.state)
    ELSE a.kind = b.kind

SamePair(a, b) ==
    IF a.kind = "Server" /\ b.kind = "Server"
    THEN DocValues(a.state) = DocValues(b.state)
    ELSE TRUE

\* all_same_state: every two adjacent actor states agree.
AllSameState(actors) ==
    \A i \in DOMAIN actors :
        (i + 1) \in DOMAIN actors => SamePair(actors[i], actors[i + 1])

\* syncing_done_and_in_sync: true while an Internal message is deliverable,
\* and otherwise the agreement of the actor states.
SyncingDoneAndInSync(net, actors) ==
    IF \E e \in IterDeliverable(net) : e.msg.family = "Internal"
    THEN TRUE
    ELSE AllSameState(actors)

(***************************************************************************)
(* Vocabulary of the properties checked below.                             *)
(***************************************************************************)
Doc(i) == actor_states[i].state

\* All replica documents hold the same observable content.
ReplicasAgree ==
    \A i, j \in ServerIds(cfg) : DocValues(Doc(i)) = DocValues(Doc(j))

NoDeliverableInternal ==
    \A e \in IterDeliverable(network) : e.msg.family # "Internal"

Quiescent == IterDeliverable(network) = {}

SomeClientPending ==
    \E e \in IterDeliverable(network) : e.msg.family = "Client"

\* C1: stable-state consistency.  In every reachable state in which no
\* Internal message (SyncMessage or SyncChange) is deliverable, all replica
\* documents hold equal observable content, whichever the synchronization
\* strategy and whether or not Client messages are still pending.
C1_StableStateConsistency == NoDeliverableInternal => ReplicasAgree

\* Witness of C1: two replicas reached agreement on a written value through
\* an Internal message, with a Client message still pending.
C1_Witness ==
    /\ cfg.servers = 2
    /\ NoDeliverableInternal
    /\ SomeClientPending
    /\ last.step = "deliver" /\ last.msg.family = "Internal"
    /\ DocValues(Doc(0)) # {}
    /\ DocValues(Doc(0)) = DocValues(Doc(1))

\* C2: convergence.  In every reachable terminal state, one with no
\* deliverable message left, all replica documents compare equal by value.
C2_Convergence == Quiescent => ReplicasAgree

\* Witness of C2: a terminal state of a run in which both replicas received
\* client writes, agreeing on a value.
C2_Witness ==
    /\ cfg.servers = 2 /\ cfg.put_clients = 2
    /\ cfg.target[2] # cfg.target[3]
    /\ Quiescent
    /\ DocValues(Doc(0)) # {}
    /\ DocValues(Doc(0)) = DocValues(Doc(1))

\* The configured actor with the given id.
Actor(i) == IntoActorModel(cfg)[i]

\* The last step delivered a message of the given type to a replica.
PeerHandled(type) ==
    /\ last.step = "deliver"
    /\ last.before.kind = "Server"
    /\ last.msg.type = type

Mutations == RequestCount * (cfg.put_clients + cfg.delete_clients)

\* C3: two replicas, one Put-client writing "v1" then "v2" to the key,
\* change propagation, acknowledgements off, ordered network: in every
\* quiescent state both replicas return "v2" for the key, whichever replica
\* the client sends its requests to.
C3_PutScenario ==
    /\ cfg.servers = 2
    /\ cfg.put_clients = 1 /\ cfg.delete_clients = 0
    /\ cfg.sync_method = Changes
    /\ ~cfg.message_acks

C3_LastWriteWins ==
    (C3_PutScenario /\ Quiescent) =>
        \A i \in ServerIds(cfg) : DocGet(Doc(i), KEY) = SomeValue(ValueOf(2, 1))

\* Witness of C3: the scenario's quiescent state with the client bound to
\* the second replica and both replicas holding "v2".
C3_Witness ==
    /\ C3_PutScenario /\ Quiescent
    /\ cfg.target[2] = 1
    /\ delivered.all = 4
    /\ DocGet(Doc(0), KEY) = SomeValue(ValueOf(2, 1))
    /\ DocGet(Doc(1), KEY) = SomeValue(ValueOf(2, 1))

\* C4: two replicas, message-based sync, one Delete-client deleting a key
\* that was never set: in every reachable state no handler has faulted, the
\* key is absent on both replicas, and stable-state consistency holds.
C4_DeleteScenario ==
    /\ cfg.servers = 2
    /\ cfg.put_clients = 0 /\ cfg.delete_clients = 1
    /\ cfg.sync_method = Messages

C4_DeleteOfAbsentKey ==
    C4_DeleteScenario =>
        /\ ~fault
        /\ \A i \in ServerIds(cfg) : ~DocGet(Doc(i), KEY).some
        /\ (NoDeliverableInternal => ReplicasAgree)

\* Witness of C4: the scenario's quiescent state, after both Deletes were
\* handled and the replicas exchanged sync messages.
C4_Witness ==
    /\ C4_DeleteScenario /\ Quiescent
    /\ delivered.sync > 0
    /\ delivered.all - delivered.sync >= RequestCount
    /\ ~fault
    /\ ~DocGet(Doc(0), KEY).some /\ ~DocGet(Doc(1), KEY).some

SentAcks == {e \in BagToSet(sent) : e.msg.type \in AckTypes}

SentRequests == {e \in BagToSet(sent) : e.msg.type \in RequestTypes}

RequestTypeOf(ack_type) ==
    CASE ack_type = "PutOk"    -> "Put"
      [] ack_type = "GetOk"    -> "Get"
      [] ack_type = "DeleteOk" -> "Delete"

\* The requests an acknowledgement correlates with: those its addressee sent
\* to the acknowledging replica under the same RequestId.
RequestsMatching(a) ==
    {r \in SentRequests : r.src = a.dst /\ r.dst = a.src /\ r.msg.id = a.msg.id}

\* C5: acknowledgement correlation.  Every acknowledgement ever sent goes
\* from a replica to a client that sent that replica exactly one request
\* with the acknowledgement's RequestId, a request of the acknowledged kind;
\* and no request is acknowledged twice.
C5_AckCorrelation ==
    \A a \in SentAcks :
        /\ a.src \in ServerIds(cfg) /\ a.dst \in ClientIds(cfg)
        /\ Cardinality(RequestsMatching(a)) = 1
        /\ \A r \in RequestsMatching(a) :
              sent[r] = 1 /\ r.msg.type = RequestTypeOf(a.msg.type)
        /\ sent[a] = 1
        /\ \A b \in SentAcks :
              (b.src = a.src /\ b.dst = a.dst /\ b.msg.id = a.msg.id) => b = a

\* Witness of C5: a run in which a replica acknowledged both writes of a
\* client and a follow-up read.
C5_Witness ==
    /\ Cardinality({a \in SentAcks : a.msg.type = "PutOk"}) = RequestCount
    /\ \E a \in SentAcks : a.msg.type = "GetOk"
    /\ Quiescent

AckTypeOf(request_type) ==
    CASE request_type = "Put"    -> "PutOk"
      [] request_type = "Get"    -> "GetOk"
      [] request_type = "Delete" -> "DeleteOk"

\* The last step's output holds the acknowledgement of the delivered request.
LastAcknowledged ==
    \E k \in 1..Len(last.out) :
        /\ last.out[k].cmd = "Send"
        /\ last.out[k].dst = last.src
        /\ last.out[k].msg.type = AckTypeOf(last.msg.type)
        /\ last.out[k].msg.id = last.msg.id

NoAckAnywhere ==
    /\ SentAcks = {}
    /\ \A e \in InFlight(network) : e.msg.type \notin AckTypes

\* C6 as stated: with the flag set every client request a replica receives
\* is acknowledged to its sender under its RequestId; with the flag unset no
\* acknowledgement is ever sent.
C6_AckEveryRequest ==
    /\ (cfg.message_acks /\ \E t \in RequestTypes : PeerHandled(t)) => LastAcknowledged
    /\ ~cfg.message_acks => NoAckAnywhere

\* C6 as amended: with the flag set a replica acknowledges every Put and
\* Delete it receives, and every Get whose key has a value in its document;
\* with the flag unset no acknowledgement is ever sent.
C6_AckPolicy ==
    /\ (cfg.message_acks /\ (PeerHandled("Put") \/ PeerHandled("Delete")))
          => LastAcknowledged
    /\ (cfg.message_acks /\ PeerHandled("Get")
           /\ DocGet(last.before.state, last.msg.key).some)
          => LastAcknowledged
    /\ ~cfg.message_acks => NoAckAnywhere

\* Witness of C6: with the flag set, a replica has just acknowledged a Get
\* of a key that has a value.
C6_Witness ==
    /\ cfg.message_acks
    /\ PeerHandled("Get")
    /\ DocGet(last.before.state, last.msg.key).some
    /\ LastAcknowledged

\* No SyncMessage is queued anywhere in the network.
NoSyncMessageInFlight ==
    \A e \in InFlight(network) : e.msg.type # "SyncMessage"

\* A replica that has heard from a peer has nothing further to tell it.
NothingToGenerate ==
    \A i \in ServerIds(cfg) : \A p \in ServerIds(cfg) \ {i} :
        Doc(i).sync_states[p].received => ~DocGenerateSyncMessage(Doc(i), p).some

\* C7: sync-message termination.  Under message-based sync each client
\* mutation causes at most HandshakeLen SyncMessage deliveries per peer, so
\* the exchange ends after finitely many deliveries; and in the state in
\* which it has ended no replica would generate a further SyncMessage for a
\* peer it has heard from.
C7_SyncTermination ==
    cfg.sync_method = Messages =>
        /\ delivered.sync <= HandshakeLen * Mutations * (cfg.servers - 1)
        /\ (Quiescent => NoSyncMessageInFlight /\ NothingToGenerate)

\* Witness of C7: two replicas that both took client writes have finished
\* the exchange.
C7_Witness ==
    /\ cfg.sync_method = Messages /\ cfg.servers = 2
    /\ cfg.put_clients = 2 /\ cfg.target[2] # cfg.target[3]
    /\ Quiescent
    /\ delivered.sync > HandshakeLen
    /\ Doc(0).sync_states[1].received /\ Doc(1).sync_states[0].received
    /\ NothingToGenerate

\* The change a delivered SyncChange carries.
LastChange == ChangeFromBytes(last.msg.change_bytes).value

\* The last step delivered a SyncChange whose change the replica had applied.
RedeliveredChange ==
    /\ PeerHandled("SyncChange")
    /\ LastChange.hash \in Hashes(last.before.state.history)

\* C8: change-propagation idempotence.  Delivering a SyncChange whose
\* change the receiving replica has already applied leaves that replica's
\* document unchanged.
C8_ChangeIdempotence ==
    RedeliveredChange => Doc(last.dst) = last.before.state

\* Witness of C8: a replica received a second time a change it had applied.
C8_Witness ==
    /\ RedeliveredChange
    /\ LastChange \in Doc(last.dst).history
    /\ ~fault

\* Some delivery is possible: a channel's head can be handed to its actor.
CanDeliver(f) ==
    /\ ~fault
    /\ network[f] # <<>>
    /\ \/ /\ actor_states[f[2]].kind = "Server"
          /\ Head(network[f]).type \in
                 {"Put", "Get", "Delete", "SyncMessage", "SyncChange"}
       \/ /\ actor_states[f[2]].kind = "Client"
          /\ Head(network[f]).type \in AckTypes

Terminal == \A f \in DOMAIN network : ~CanDeliver(f)

NoPendingTimeout == \A i \in DOMAIN is_timer_set : ~is_timer_set[i]

\* The deliveries a run can make: per request, the request, its
\* acknowledgement, a follow-up read and its reply, and the sync traffic to
\* each peer.
MaxDeliveries == Mutations * (4 + HandshakeLen * (cfg.servers - 1))

\* C9: every execution is bounded.  No run makes more than MaxDeliveries
\* deliveries, so every run ends; the states a run can end in are exactly
\* the states with no deliverable message, and no timeout is ever pending.
C9_BoundedExecution ==
    /\ delivered.all <= MaxDeliveries
    /\ NoPendingTimeout
    /\ (Terminal <=> Quiescent)
    /\ \A i \in Ids(cfg) :
          ActorOnTimeout(Actor(i), actor_states[i]).out = <<>>

\* Witness of C9: a run of two replicas and two clients has ended.
C9_Witness ==
    /\ cfg.servers = 2 /\ cfg.put_clients + cfg.delete_clients = 2
    /\ Terminal /\ Quiescent
    /\ delivered.all > 2 * RequestCount
    /\ NoPendingTimeout

\* C10: on delivery of Get(id, key) a replica sends exactly GetOk(id, value)
\* to the sender if the key has the value in its document and
\* acknowledgements are enabled, and otherwise sends nothing; either way the
\* handler does not fault.
C10_GetReply ==
    PeerHandled("Get") =>
        /\ ~fault
        /\ last.out =
              IF DocGet(last.before.state, last.msg.key).some /\ cfg.message_acks
              THEN <<Send(last.src,
                          GetOk(last.msg.id,
                                DocGet(last.before.state, last.msg.key).value))>>
              ELSE <<>>

\* Witness of C10: with acknowledgements enabled a replica handled a Get of
\* a key that has no value, and sent nothing.
C10_Witness ==
    /\ PeerHandled("Get")
    /\ cfg.message_acks
    /\ ~DocGet(last.before.state, last.msg.key).some
    /\ last.out = <<>>
    /\ ~fault

\* What the engine generates for the sender of the delivered SyncMessage,
\* once the replica has received it.
LastGenerated ==
    DocGenerateSyncMessage(
        DocReceiveSyncMessage(last.before.state, last.src,
                              DecodeMessage(last.msg.message_bytes).value),
        last.src)

\* C11: delivery of one SyncMessage to a replica causes at most one
\* outbound message, a SyncMessage addressed to the sender of the delivered
\* one, sent exactly when the engine generates one; nothing goes to any
\* other peer or to a client in that step.
C11_SingleSyncReply ==
    PeerHandled("SyncMessage") =>
        /\ Len(last.out) <= 1
        /\ \A k \in 1..Len(last.out) :
              /\ last.out[k].cmd = "Send"
              /\ last.out[k].dst = last.src
              /\ last.out[k].msg.type = "SyncMessage"
        /\ ~fault => ((last.out # <<>>) <=> LastGenerated.some)

\* Witness of C11: a replica with two peers and a client answered the
\* sender of a SyncMessage while it also had news for its other peer.
C11_Witness ==
    /\ cfg.servers = 3 /\ ClientIds(cfg) # {}
    /\ PeerHandled("SyncMessage")
    /\ Len(last.out) = 1
    /\ last.out[1].dst = last.src
    /\ \E p \in ServerIds(cfg) \ {last.src, last.dst} :
          DocGenerateSyncMessage(Doc(last.dst), p).some

\* The change of the delivered SyncChange is part of the replica's document:
\* applied, or waiting in its queue for the changes it depends on.
LastChangeImported ==
    \/ LastChange \in Doc(last.dst).history
    \/ LastChange \in Doc(last.dst).queue

\* C12: delivery of a SyncChange to a replica emits no message of any
\* kind: the change is applied to the local document, and is neither
\* acknowledged to the sender nor re-broadcast to the other peers.
C12_SyncChangeSilent ==
    PeerHandled("SyncChange") =>
        /\ last.out = <<>>
        /\ ~fault => LastChangeImported

\* Witness of C12: with acknowledgements on, a replica with two peers
\* applied a change that was new to it, and sent nothing.
C12_Witness ==
    /\ cfg.servers = 3 /\ cfg.message_acks
    /\ PeerHandled("SyncChange")
    /\ LastChange.hash \notin Hashes(last.before.state.history)
    /\ LastChange \in Doc(last.dst).history
    /\ last.out = <<>>

\* The last step delivered a client mutation (Put or Delete) to a replica.
MutationHandled == PeerHandled("Put") \/ PeerHandled("Delete")

\* The positions of the last step's output that send a SyncChange to p.
SyncChangesTo(p) ==
    {k \in 1..Len(last.out) :
        /\ last.out[k].cmd = "Send"
        /\ last.out[k].msg.type = "SyncChange"
        /\ last.out[k].dst = p}

\* C13: under change propagation, a replica that handles a client Put or
\* Delete and has a latest local change sends exactly one SyncChange to
\* each other replica, none to itself and none to a client, and each of
\* them carries that change, exported unchanged.
C13_BroadcastToPeers ==
    (cfg.sync_method = Changes /\ MutationHandled
        /\ DocLastLocalChange(Doc(last.dst)).some) =>
        \A p \in Ids(cfg) :
            /\ Cardinality(SyncChangesTo(p)) =
                  (IF p \in ServerIds(cfg) \ {last.dst} THEN 1 ELSE 0)
            /\ \A k \in SyncChangesTo(p) :
                  /\ last.out[k].msg.change_bytes =
                        RawBytes(DocLastLocalChange(Doc(last.dst)).value)
                  /\ ChangeFromBytes(last.out[k].msg.change_bytes) =
                        [ok |-> TRUE, value |-> DocLastLocalChange(Doc(last.dst)).value]

\* Witness of C13: a replica with two peers acknowledged a client's Put and
\* sent its change to both peers.
C13_Witness ==
    /\ cfg.sync_method = Changes /\ cfg.servers = 3 /\ cfg.message_acks
    /\ PeerHandled("Put")
    /\ DocLastLocalChange(Doc(last.dst)).some
    /\ Len(last.out) = 3
    /\ \A p \in ServerIds(cfg) \ {last.dst} : Cardinality(SyncChangesTo(p)) = 1

\* The last step's output sends no SyncChange to anyone.
NoSyncChangeSent == \A p \in Ids(cfg) : SyncChangesTo(p) = {}

\* C14: under change propagation, a replica broadcasts a SyncChange after a
\* client mutation only if the mutation changed its document; a mutation
\* that changes nothing, such as a Delete of an absent key by a replica that
\* made local changes before, causes no SyncChange to be sent.
C14_BroadcastOnlyOnChange ==
    (cfg.sync_method = Changes /\ MutationHandled
        /\ Doc(last.dst) = last.before.state) => NoSyncChangeSent

\* The Internal message type the configured strategy never uses.
ForeignSyncType ==
    IF cfg.sync_method = Changes THEN "SyncMessage" ELSE "SyncChange"

\* C15: the synchronization strategy is fixed per run and exclusive.  Every
\* replica runs the configured strategy; under change propagation the
\* network never contains a SyncMessage, and under message-based sync it
\* never contains a SyncChange.
C15_StrategyExclusive ==
    /\ \A i \in ServerIds(cfg) : Actor(i).actor.sync_method = cfg.sync_method
    /\ \A e \in InFlight(network) : e.msg.type # ForeignSyncType
    /\ last.step = "deliver" => last.msg.type # ForeignSyncType

\* Witness of C15: under message-based sync, three replicas have
\* SyncMessages in flight after a mutation and a SyncMessage were handled.
C15_Witness ==
    /\ cfg.sync_method = Messages /\ cfg.servers = 3
    /\ PeerHandled("SyncMessage")
    /\ delivered.all - delivered.sync > 0
    /\ \E e \in InFlight(network) : e.msg.type = "SyncMessage"
    /\ \A e \in InFlight(network) : e.msg.type # "SyncChange"

\* An envelope that goes from one replica to a different replica.
BetweenReplicas(src, dst) ==
    /\ src \in ServerIds(cfg)
    /\ dst \in ServerIds(cfg)
    /\ src # dst

\* C16: in every reachable state every Internal message in the network goes
\* from a replica to a different replica, and so did every Internal message
\* delivered: clients neither send nor receive Internal messages, the
\* replies to the source of a SyncMessage included.
C16_InternalBetweenReplicas ==
    /\ \A e \in InFlight(network) :
          e.msg.family = "Internal" => BetweenReplicas(e.src, e.dst)
    /\ (last.step = "deliver" /\ last.msg.family = "Internal") =>
          BetweenReplicas(last.src, last.dst)
    /\ \A i \in ClientIds(cfg) : \A j \in Ids(cfg) :
          \A k \in 1..Len(network[<<i, j>>]) :
              /\ network[<<i, j>>][k].type \in RequestTypes
              /\ j \in ServerIds(cfg)

\* Witness of C16: among three replicas and a client, a replica replied to
\* the source of a SyncMessage while the client still had a request queued.
C16_Witness ==
    /\ cfg.servers = 3 /\ ClientIds(cfg) # {}
    /\ PeerHandled("SyncMessage")
    /\ last.out # <<>>
    /\ Envelope(last.dst, last.src, last.out[1].msg) \in InFlight(network)
    /\ \E i \in ClientIds(cfg) : network[<<i, cfg.target[i]>>] # <<>>

(***************************************************************************)
(* The delete clients: MapSingleDeleter deletes one key of a map,          *)
(* ListDeleter the element at one index of a list.  Both emit their        *)
(* requests at start, to the actor with id 0, and keep no state.           *)
(***************************************************************************)
MapSingleDeleter(key, request_count) ==
    [kind |-> "MapSingleDeleter", key |-> key, request_count |-> request_count]

ListDeleter(index, request_count) ==
    [kind |-> "ListDeleter", index |-> index, request_count |-> request_count]

DeleteMap(key) == [family |-> "Request", type |-> "DeleteMap", key |-> key]

DeleteList(index) == [family |-> "Request", type |-> "DeleteList", index |-> index]

\* Faulty variant: the loop runs once more than request_count.
MapSingleDeleterOnStartInclusive(self, id) ==
    [state |-> Unit,
     out   |-> [i \in 1..(self.request_count + 1) |-> Send(0, DeleteMap(self.key))]]

MapSingleDeleterOnStart(self, id) ==
    [state |-> Unit,
     out   |-> [i \in 1..self.request_count |-> Send(0, DeleteMap(self.key))]]

ListDeleterOnStart(self, id) ==
    [state |-> Unit,
     out   |-> [i \in 1..self.request_count |-> Send(0, DeleteList(self.index))]]

DeleterKeys == {KEY, "other"}

\* Every delete client within the bounds.
Deleters ==
    {MapSingleDeleter(k, n) : k \in DeleterKeys, n \in 0..MaxRequestCount}
        \cup {ListDeleter(x, n) : x \in 0..MaxIndex, n \in 0..MaxRequestCount}

\* A population of delete clients: the actor with id 0 is the replica they
\* address, the clients have the ids from 1.  None has started yet.
ClientInit ==
    \E n \in 0..MaxDeleters : \E ds \in [1..n -> Deleters] :
        /\ cfg = [deleters |-> ds]
        /\ actor_states = <<>>
        /\ network = [f \in (0..n) \X (0..n) |-> <<>>]
        /\ is_timer_set = [i \in 0..n |-> FALSE]
        /\ delivered = [all |-> 0, sync |-> 0]
        /\ sent = EmptyBag
        /\ last = NoStep
        /\ fault = FALSE

\* The effect of starting the client with the given id, given what its
\* on_start returned.
ClientStarted(id, r) ==
    /\ actor_states' = Append(actor_states, r.state)
    /\ network' = NetworkSend(network, id, r.out)
    /\ last' = [step |-> "start", src |-> id, dst |-> id, msg |-> <<>>,
                before |-> <<>>, out |-> r.out, owned |-> TRUE]
    /\ sent' = sent (+) SetToBag({Envelope(id, r.out[k].dst, r.out[k].msg) :
                                      k \in 1..Len(r.out)})
    /\ UNCHANGED <<cfg, is_timer_set, delivered, fault>>

\* The clients start in the order of their ids.
NextToStart == Len(actor_states) + 1

StartMapSingleDeleter ==
    /\ NextToStart \in DOMAIN cfg.deleters
    /\ cfg.deleters[NextToStart].kind = "MapSingleDeleter"
    /\ ClientStarted(NextToStart,
                     MapSingleDeleterOnStart(cfg.deleters[NextToStart], NextToStart))

StartListDeleter ==
    /\ NextToStart \in DOMAIN cfg.deleters
    /\ cfg.deleters[NextToStart].kind = "ListDeleter"
    /\ ClientStarted(NextToStart,
                     ListDeleterOnStart(cfg.deleters[NextToStart], NextToStart))

ClientNext ==
    \/ StartMapSingleDeleter
    \/ StartListDeleter

ClientSpec == ClientInit /\ [][ClientNext]_vars

\* The request a delete client is configured to send.
DeleterRequest(d) ==
    IF d.kind = "MapSingleDeleter" THEN DeleteMap(d.key) ELSE DeleteList(d.index)

\* Everything the client with the given id has sent, whatever the channel.
SentBy(id) == {e \in InFlight(network) : e.src = id}

\* C17: a client emits exactly request_count requests of its configured
\* kind at start, all addressed to one fixed target, and keeps no mutable
\* state: its state is the unit value in every reachable state.  The delete
\* clients address replica 0, and a request count of 0 emits nothing.
C17_ClientRequests ==
    /\ \A id \in 1..Len(actor_states) :
          /\ actor_states[id] = Unit
          /\ Len(network[<<id, 0>>]) = cfg.deleters[id].request_count
          /\ \A e \in SentBy(id) :
                e.dst = 0 /\ e.msg = DeleterRequest(cfg.deleters[id])
          /\ cfg.deleters[id].request_count = 0 => SentBy(id) = {}
    /\ \A id \in DOMAIN cfg.deleters :
          id > Len(actor_states) => SentBy(id) = {}
    /\ last.step = "start" =>
          Len(last.out) = cfg.deleters[last.src].request_count

\* Witness of C17: a MapSingleDeleter with a request count of 0 and a
\* ListDeleter with the largest request count have both started.
C17_Witness ==
    /\ Len(actor_states) = 2
    /\ cfg.deleters[1].kind = "MapSingleDeleter"
    /\ cfg.deleters[1].request_count = 0
    /\ SentBy(1) = {}
    /\ cfg.deleters[2].kind = "ListDeleter"
    /\ Len(network[<<2, 0>>]) = MaxRequestCount
    /\ actor_states[1] = Unit /\ actor_states[2] = Unit

(***************************************************************************)
(* One replica under every Client message.  Replica 0 of a configuration   *)
(* is handed Client messages of every type, acknowledgements included,     *)
(* from any other actor; its output goes into the network, where it stays. *)
(***************************************************************************)
PeerInit ==
    \E s \in 2..MaxServers, m \in SyncMethod, a \in BOOLEAN :
        InitWith(ModelCfg(s, 1, 0, FALSE, m, a, s :> 0),
                 IntoActorModel(ModelCfg(s, 1, 0, FALSE, m, a, s :> 0)),
                 [network |-> EmptyNetwork(ModelCfg(s, 1, 0, FALSE, m, a, s :> 0)),
                  sent    |-> EmptyBag])

\* The effect of replica 0 handling msg from src, given the handler's result.
Handled(src, msg, r) ==
    /\ actor_states' = [actor_states EXCEPT ![0] = r.state]
    /\ network' = IF r.fault THEN network ELSE NetworkSend(network, 0, r.out)
    /\ is_timer_set' = [is_timer_set EXCEPT ![0] = TimerAfter(@, r.out)]
    /\ delivered' = [delivered EXCEPT !.all = @ + 1]
    /\ sent' = sent (+) ClientEnvelopes(0, r.out)
    /\ last' = [step |-> "deliver", src |-> src, dst |-> 0, msg |-> msg,
                before |-> actor_states[0], out |-> r.out, owned |-> r.owned]
    /\ fault' = r.fault
    /\ UNCHANGED cfg

Handle(src, msg) ==
    /\ ~fault
    /\ delivered.all < MaxHandled
    /\ Handled(src, msg,
               ActorOnMsg(IntoActorModel(cfg)[0], actor_states[0], src, msg))

Senders == Ids(cfg) \ {0}

RequestIds == 0..MaxRequestId

HandlePut ==
    \E src \in Senders, id \in RequestIds :
        Handle(src, Put(id, KEY, ValueOf(src, id)))

HandleGet ==
    \E src \in Senders, id \in RequestIds, key \in DeleterKeys :
        Handle(src, Get(id, key))

HandleDelete ==
    \E src \in Senders, id \in RequestIds : Handle(src, Delete(id, KEY))

HandlePutOk ==
    \E src \in Senders, id \in RequestIds : Handle(src, PutOk(id))

HandleGetOk ==
    \E src \in Senders, id \in RequestIds :
        Handle(src, GetOk(id, ValueOf(src, id)))

HandleDeleteOk ==
    \E src \in Senders, id \in RequestIds : Handle(src, DeleteOk(id))

PeerNext ==
    \/ HandlePut
    \/ HandleGet
    \/ HandleDelete
    \/ HandlePutOk
    \/ HandleGetOk
    \/ HandleDeleteOk

PeerSpec == PeerInit /\ [][PeerNext]_vars

\* The last step delivered an acknowledgement to a replica.
AckHandled ==
    \/ PeerHandled("PutOk")
    \/ PeerHandled("GetOk")
    \/ PeerHandled("DeleteOk")

\* The last step's output holds no Internal message.
NoInternalSent ==
    \A k \in 1..Len(last.out) :
        last.out[k].cmd = "Send" => last.out[k].msg.family # "Internal"

\* C18: delivery of a Get or of an acknowledgement (PutOk, GetOk, DeleteOk)
\* to a replica leaves the replica's document unchanged and emits no
\* Internal message; an acknowledgement emits no message at all, and its
\* step is reported as state unchanged, not as state replaced.
C18_GetAndAckFrame ==
    /\ (PeerHandled("Get") \/ AckHandled) =>
          /\ Doc(last.dst) = last.before.state
          /\ NoInternalSent
          /\ ~fault
    /\ AckHandled => (last.out = <<>> /\ ~last.owned)

\* Witness of C18: a replica that holds a value and has peers to tell was
\* handed an acknowledgement, with acknowledgements enabled.
C18_Witness ==
    /\ AckHandled
    /\ cfg.message_acks
    /\ DocGet(Doc(0), KEY).some
    /\ DocLastLocalChange(Doc(0)).some
    /\ Doc(0) = last.before.state
    /\ last.out = <<>> /\ ~last.owned

InternalInFlight == \E e \in InFlight(network) : e.msg.family = "Internal"

InternalDeliverable ==
    \E e \in IterDeliverable(network) : e.msg.family = "Internal"

\* Every message queued between two replicas is an Internal one.
ReplicaChannelsInternal ==
    \A i \in ServerIds(cfg) : \A j \in ServerIds(cfg) :
        \A k \in 1..Len(network[<<i, j>>]) :
            network[<<i, j>>][k].family = "Internal"

\* C19: on the ordered network the stable-state check misses no sync
\* traffic.  In every reachable state an Internal message is in flight if
\* and only if an Internal message is deliverable, because no channel
\* between two replicas carries a Client message ahead of an Internal one;
\* so the check passes by agreement only when no sync traffic is left.
C19_NoHiddenSyncTraffic ==
    /\ InternalInFlight <=> InternalDeliverable
    /\ ReplicaChannelsInternal
    /\ InternalInFlight => SyncingDoneAndInSync(network, actor_states)

\* Witness of C19: with acknowledgements on, a channel between two replicas
\* holds two Internal messages, the second behind the first, while a Client
\* message is deliverable elsewhere.
C19_Witness ==
    /\ cfg.message_acks
    /\ \E i \in ServerIds(cfg) : \E j \in ServerIds(cfg) :
          Len(network[<<i, j>>]) >= 2
    /\ SomeClientPending
    /\ InternalInFlight /\ InternalDeliverable

\* The actor states come in the assembler's order: replicas, then clients.
ReplicasFirst ==
    \A i \in Ids(cfg) :
        actor_states[i].kind = (IF i < cfg.servers THEN "Server" ELSE "Client")

\* C20: for the actor order the model assembler builds (all replicas, then
\* all clients) the agreement predicate, which compares adjacent actor
\* states only and takes any pair with a client as agreeing, holds if and
\* only if all replica documents are pairwise equal by value; with zero or
\* one replica it holds vacuously.
C20_AgreementIsPairwise ==
    /\ ReplicasFirst
    /\ AllSameState(actor_states) <=> ReplicasAgree
    /\ cfg.servers <= 1 => AllSameState(actor_states)

\* Witness of C20: of three replicas followed by a client, the first two
\* agree on a value and the third differs, so the predicate is false.
C20_Witness ==
    /\ cfg.servers = 3 /\ ClientIds(cfg) # {}
    /\ DocValues(Doc(0)) # {}
    /\ DocValues(Doc(0)) = DocValues(Doc(1))
    /\ DocValues(Doc(1)) # DocValues(Doc(2))
    /\ ~AllSameState(actor_states)
    /\ ~ReplicasAgree

====
